---------------------------- MODULE Spec2Model ----------------------------
(***************************************************************************)
(* Model of webpage-video-recorder: the cleanup coordinator               *)
(* (lib/cleanup.js), the display, capture and browser collaborators       *)
(* (lib/display.js, lib/recorder.js, lib/browser.js) and the job          *)
(* lifecycle recordUrl (record.js).                                        *)
(*                                                                         *)
(* The program is single-threaded JavaScript: an action of the model is    *)
(* one run-to-completion turn of the event loop (the synchronous code      *)
(* between two awaits, a timer callback, or the listeners of one event).   *)
(* The child processes (Xvfb, ffmpeg) run truly in parallel; their exits   *)
(* are events delivered to the listeners registered at that time.          *)
(***************************************************************************)
EXTENDS Integers, Sequences, FiniteSets, TLC

\* ------------------------------------------------------------------ bounds
NJobs == 2          \* jobs (and so child processes of each kind) in the model
MaxCalls == 2       \* invocations of cleanupAll
MaxHandlers == 2    \* custom cleanup handlers that can be registered
MaxDuration == 1    \* largest manual --duration, in seconds
MaxBuffer == 1      \* largest --buffer, in seconds
MaxClicks == 1      \* most --click-selector entries
MaxExternal == 1    \* most display numbers held by servers of other programs
MaxUrls == 3        \* most URLs of a batch file
MaxConcurrency == 2 \* largest --concurrency
MaxDetected == 25   \* largest video.duration the page reports, in tenths of a second

\* ------------------------------------------------------- program constants
DisplayStart == 99  \* default of --display
MaxProbe == 10      \* maxAttempts of findAvailableDisplay
MaxAttempts == 3    \* maxAttempts of playVideo

Jobs == 1..NJobs
Kinds == {"xvfb", "ffmpeg"}
Procs == Jobs \X Kinds          \* child process handles; its name is its kind
NoProc == <<0, "none">>
ExtProc == <<0, "external">>    \* a display server of another program
Name(p) == p[2]
Callers == 1..MaxCalls
Handlers == 1..MaxHandlers
DisplayNums == DisplayStart..(DisplayStart + MaxProbe + 1)

VARIABLES
  \* ---- child processes (Node ChildProcess objects and the OS processes)
  procState,      \* "none" (not spawned) | "running" | "exited" (exit event emitted)
  procKilled,     \* ChildProcess.killed: a signal was sent successfully
  procBehav,      \* "obeys" graceful signals | "ignores" them | kill() "throws"
  procSigs,       \* signals delivered to the process
  \* ---- X display numbers
  xLock,          \* display number -> the server process that holds it
  xServing,       \* display number -> its server answers xdpyinfo
  envDisplay,     \* process.env.DISPLAY of the recorder process, 0 when unset
  \* ---- CleanupManager
  processes,      \* this.processes: name -> handle
  cleanupHandlers,\* this.cleanupHandlers
  isCleaningUp,   \* this.isCleaningUp
  caPc,           \* position of each cleanupAll invocation
  caIdx,          \* index of the handler an invocation awaits
  caKills,        \* killPromises of an invocation: the handles it signalled
  kpState,        \* promise of killProcess per handle
  kpTimer,        \* its 5 s timer is armed
  handlerCalls,   \* times each custom handler was called
  handlerThrew,   \* the custom handlers whose call threw
  passes,         \* cleanup passes started
  termPasses,     \* per handle: cleanup passes that called killProcess on it
  \* ---- recordUrl: one record per job (options, locals, position)
  job,
  \* ---- the recorder process and its main program
  execListeners,  \* handles whose exit listener of execTracked is registered
  mainPc,         \* position of the main program
  dr,             \* a duration resolution: its inputs and its outcome
  batch,          \* the batch run: URL count, limit, queue, jobs in flight, results
  exitCode        \* exit status of the recorder process, -1 while it runs

procVars == <<procState, procKilled, procBehav, procSigs>>
xVars == <<xLock, xServing, envDisplay>>
cmVars == <<processes, cleanupHandlers, isCleaningUp, caPc, caIdx, caKills,
            kpState, kpTimer, handlerCalls, handlerThrew, passes, termPasses>>
mainVars == <<execListeners, dr, mainPc, batch, exitCode>>
vars == <<procVars, xVars, cmVars, job, mainVars>>

\* --------------------------------------------------------- child processes
Behaviours == {"obeys", "ignores", "throws"}
ExitCodes == {"zero", "nonzero", "null"}   \* code 0, code > 0, killed by a signal

InitProcs ==
  /\ procState = [p \in Procs |-> "none"]
  /\ procKilled = [p \in Procs |-> FALSE]
  /\ procBehav = [p \in Procs |-> "obeys"]
  /\ procSigs = [p \in Procs |-> {}]

\* child_process.spawn: a live process with a pid.
Spawned(p, b) ==
  /\ procState' = [procState EXCEPT ![p] = "running"]
  /\ procBehav' = [procBehav EXCEPT ![p] = b]
  /\ UNCHANGED <<procKilled, procSigs>>

\* ChildProcess.kill(sig) as the code uses it: on a live handle the signal is
\* delivered and .killed becomes true; on a handle whose exit was already
\* emitted it returns false and changes nothing; it throws when the signal
\* cannot be sent.
KillThrows(p) == procState[p] = "running" /\ procBehav[p] = "throws"
KillDelivers(p) == procState[p] = "running" /\ procBehav[p] # "throws"
SigsAfterKill(p, sig) == IF KillDelivers(p) THEN procSigs[p] \cup {sig} ELSE procSigs[p]
KilledAfterKill(p) == IF KillDelivers(p) THEN TRUE ELSE procKilled[p]

\* kill(sig) on handle p, everything else about the processes unchanged.
Kill(p, sig) ==
  /\ procSigs' = [procSigs EXCEPT ![p] = SigsAfterKill(p, sig)]
  /\ procKilled' = [procKilled EXCEPT ![p] = KilledAfterKill(p)]
  /\ UNCHANGED <<procState, procBehav>>

\* An Xvfb started on a display number whose lock another server holds: it
\* fails with "Server is already active for display".
Doomed(p) ==
  /\ Name(p) = "xvfb"
  /\ procState[p] = "running"
  /\ job[p[1]].sdNum # 0
  /\ xLock[job[p[1]].sdNum] # p

\* A running process can end: on its own or after a graceful signal when it
\* obeys them, and after SIGKILL in any case.
CanExit(p) ==
  /\ procState[p] = "running"
  /\ procBehav[p] # "ignores" \/ "SIGKILL" \in procSigs[p] \/ Doomed(p)

\* After process.exit and after the end of the event loop no code runs.
Running == exitCode = -1

\* ---------------------------------------------------------- CleanupManager
InitCleanup ==
  /\ processes = [n \in Kinds |-> NoProc]
  /\ cleanupHandlers = <<>>
  /\ isCleaningUp = FALSE
  /\ caPc = [c \in Callers |-> "idle"]
  /\ caIdx = [c \in Callers |-> 0]
  /\ caKills = [c \in Callers |-> {}]
  /\ kpState = [p \in Procs |-> "none"]
  /\ kpTimer = [p \in Procs |-> FALSE]
  /\ handlerCalls = [h \in Handlers |-> 0]
  /\ handlerThrew = {}
  /\ passes = 0
  /\ termPasses = [p \in Procs |-> 0]

Tracked == {processes[n] : n \in Kinds} \ {NoProc}

\* trackProcess(name, process) of a process the client just spawned
\* (record.js tracks the Xvfb and the ffmpeg process of its one recording).
TrackProcess(p) ==
  /\ Running
  /\ p[1] = 1
  /\ procState[p] = "none"
  /\ \E b \in Behaviours : Spawned(p, b)
  /\ processes' = [processes EXCEPT ![Name(p)] = p]
  /\ UNCHANGED <<cleanupHandlers, isCleaningUp, caPc, caIdx, caKills, kpState,
                 kpTimer, handlerCalls, handlerThrew, passes, termPasses>>

\* trackProcess(name, process) of a new handle of any job: Map.set replaces
\* the handle the name was mapped to.
TrackHandle(p) ==
  /\ Running
  /\ procState[p] = "none"
  /\ \E b \in Behaviours : Spawned(p, b)
  /\ processes' = [processes EXCEPT ![Name(p)] = p]
  /\ UNCHANGED <<cleanupHandlers, isCleaningUp, caPc, caIdx, caKills, kpState,
                 kpTimer, handlerCalls, handlerThrew, passes, termPasses>>

\* execTracked(name, command, args): the process is spawned and tracked, and
\* an exit listener that untracks its name is registered.
ExecTracked(p) ==
  /\ TrackProcess(p)
  /\ execListeners' = execListeners \cup {p}
  /\ UNCHANGED <<dr, mainPc, batch, exitCode>>

\* untrackProcess(name)
UntrackProcess(n) ==
  /\ Running
  /\ processes[n] # NoProc
  /\ processes' = [processes EXCEPT ![n] = NoProc]
  /\ UNCHANGED <<procVars, cleanupHandlers, isCleaningUp, caPc, caIdx, caKills,
                 kpState, kpTimer, handlerCalls, handlerThrew, passes, termPasses>>

\* registerCleanupHandler(handler)
RegisterCleanupHandler(h) ==
  /\ Running
  /\ h = Len(cleanupHandlers) + 1
  /\ cleanupHandlers' = Append(cleanupHandlers, h)
  /\ UNCHANGED <<procVars, processes, isCleaningUp, caPc, caIdx, caKills,
                 kpState, kpTimer, handlerCalls, handlerThrew, passes, termPasses>>

\* The guard of cleanupAll: a pass is skipped when one has started.
AlreadyCleaningNever == FALSE
AlreadyCleaning == isCleaningUp

\* The promise of killProcess when its synchronous part is over: the catch
\* block around process.kill resolves it at once when the call throws.
KillPromiseUncaught(p) == "pending"
KillPromise(p) == IF KillThrows(p) THEN "resolved" ELSE "pending"

\* killProcess(name, process, 'SIGTERM'), its synchronous part, for every
\* handle of the set ps: the signal is sent, the timer armed and the exit
\* listener added; a throwing kill resolves the promise at once.
KillProcessAll(ps) ==
  /\ procSigs' = [p \in Procs |->
        IF p \in ps THEN SigsAfterKill(p, "SIGTERM") ELSE procSigs[p]]
  /\ procKilled' = [p \in Procs |->
        IF p \in ps THEN KilledAfterKill(p) ELSE procKilled[p]]
  /\ kpState' = [p \in Procs |->
        IF p \in ps THEN KillPromise(p) ELSE kpState[p]]
  /\ kpTimer' = [p \in Procs |->
        IF p \in ps THEN ~KillThrows(p) ELSE kpTimer[p]]
  /\ termPasses' = [p \in Procs |->
        IF p \in ps THEN termPasses[p] + 1 ELSE termPasses[p]]
  /\ UNCHANGED <<procState, procBehav>>

\* cleanupAll from the handler loop on: the handler at index i is called and
\* awaited, or, the loop being over, every tracked process is signalled and
\* Promise.all awaited.
CleanupAllFrom(c, i) ==
  IF i <= Len(cleanupHandlers)
  THEN /\ handlerCalls' = [handlerCalls EXCEPT ![cleanupHandlers[i]] = @ + 1]
       /\ caIdx' = [caIdx EXCEPT ![c] = i]
       /\ caPc' = [caPc EXCEPT ![c] = "handler"]
       /\ UNCHANGED <<procVars, caKills, kpState, kpTimer, termPasses>>
  ELSE /\ KillProcessAll(Tracked)
       /\ caKills' = [caKills EXCEPT ![c] = Tracked]
       /\ caIdx' = [caIdx EXCEPT ![c] = i]
       /\ caPc' = [caPc EXCEPT ![c] = "await"]
       /\ UNCHANGED handlerCalls

\* cleanupAll(reason) is invoked (a signal, withCleanup, a direct call).
CleanupAll(c) ==
  /\ Running
  /\ caPc[c] = "idle"
  /\ IF AlreadyCleaning
     THEN /\ caPc' = [caPc EXCEPT ![c] = "skipped"]
          /\ UNCHANGED <<procVars, isCleaningUp, caIdx, caKills, kpState,
                         kpTimer, handlerCalls, passes, termPasses>>
     ELSE /\ isCleaningUp' = TRUE
          /\ passes' = passes + 1
          /\ CleanupAllFrom(c, 1)
  /\ UNCHANGED <<processes, cleanupHandlers, handlerThrew>>

\* The index the handler loop goes on with after the handler at index i
\* returned or threw: the catch block inside the loop only logs.
NextHandlerAborting(i, threw) == IF threw THEN Len(cleanupHandlers) + 1 ELSE i + 1
NextHandler(i, threw) == i + 1

\* The awaited handler returns or throws; the loop goes on either way.
HandlerSettles(c) ==
  /\ Running
  /\ caPc[c] = "handler"
  /\ \E threw \in BOOLEAN :
       /\ handlerThrew' = IF threw THEN handlerThrew \cup {cleanupHandlers[caIdx[c]]}
                          ELSE handlerThrew
       /\ CleanupAllFrom(c, NextHandler(caIdx[c], threw))
  /\ UNCHANGED <<processes, cleanupHandlers, isCleaningUp, passes>>

\* Promise.all(killPromises) resolved: the registry is cleared.
CleanupAllDone(c) ==
  /\ Running
  /\ caPc[c] = "await"
  /\ \A p \in caKills[c] : kpState[p] = "resolved"
  /\ processes' = [n \in Kinds |-> NoProc]
  /\ caPc' = [caPc EXCEPT ![c] = "done"]
  /\ UNCHANGED <<procVars, cleanupHandlers, isCleaningUp, caIdx, caKills,
                 kpState, kpTimer, handlerCalls, handlerThrew, passes, termPasses>>

\* killProcess: the 5 s timer fires.
KillProcessTimeout(p) ==
  /\ Running
  /\ kpTimer[p]
  /\ kpTimer' = [kpTimer EXCEPT ![p] = FALSE]
  /\ kpState' = [kpState EXCEPT ![p] = "resolved"]
  /\ IF procKilled[p] = FALSE /\ ~KillThrows(p)
     THEN /\ procSigs' = [procSigs EXCEPT ![p] = SigsAfterKill(p, "SIGKILL")]
          /\ procKilled' = [procKilled EXCEPT ![p] = KilledAfterKill(p)]
     ELSE UNCHANGED <<procSigs, procKilled>>
  /\ UNCHANGED <<procState, procBehav, processes, cleanupHandlers, isCleaningUp,
                 caPc, caIdx, caKills, handlerCalls, handlerThrew, passes,
                 termPasses>>

\* The listener of 'uncaughtException': cleanupAll is called, not awaited,
\* and process.exit(1) follows in the same turn.
NextCaller(c) == \A d \in Callers : d < c => caPc[d] # "idle"

UncaughtException(c) ==
  /\ NextCaller(c)
  /\ CleanupAll(c)
  /\ exitCode' = 1
  /\ UNCHANGED <<xVars, job, execListeners, dr, mainPc, batch>>

\* The exit listener of killProcess: clearTimeout and resolve.
KpOnExit(p) ==
  /\ kpTimer' = [kpTimer EXCEPT ![p] = FALSE]
  /\ kpState' = [kpState EXCEPT ![p] = IF @ = "pending" THEN "resolved" ELSE @]

\* -------------------------------------------------- X display numbers
InitX(ext) ==
  /\ xLock = [n \in DisplayNums |-> IF n \in ext THEN ExtProc ELSE NoProc]
  /\ xServing = [n \in DisplayNums |-> n \in ext]
  /\ envDisplay = 0

\* The display numbers other programs' servers hold when the run starts.
ExtChoices ==
  {DisplayStart..(DisplayStart + k - 1) : k \in 0..MaxExternal} \cup {DisplayNums}

\* isDisplayInUse(displayNumber): xdpyinfo gets an answer from whichever
\* server serves the number.
IsDisplayInUse(n) == xServing[n]

\* The Xvfb of job j begins to serve the display number it holds.
XvfbReady(j) ==
  LET p == <<j, "xvfb">> n == job[j].sdNum IN
  /\ procState[p] = "running"
  /\ n # 0 /\ xLock[n] = p /\ ~xServing[n]
  /\ xServing' = [xServing EXCEPT ![n] = TRUE]
  /\ UNCHANGED <<procVars, xLock, envDisplay, cmVars, job, mainVars>>

\* --------------------------------------------------------------- recordUrl
Stages == <<"display", "audio", "browser", "navigate", "video", "duration",
            "capture", "play", "wait", "teardown">>
\* video.duration as the page reports it: NaN, Infinity or a number, here in
\* tenths of a second.
DetectedValues ==
  {<<"NaN", 0>>, <<"Infinity", 0>>, <<"number", 0>>, <<"number", 4>>, <<"number", 14>>}

IdleJob ==
  [pc |-> "idle", displayStartNumber |-> DisplayStart, parallelMode |-> FALSE,
   autoDetectDuration |-> TRUE, duration |-> 0,
   autoRetry |-> TRUE, sdNum |-> 0, sdTries |-> 0, sdProbes |-> 0,
   displayInfo |-> 0, audioInfo |-> FALSE, ffmpegProcess |-> FALSE, browser |-> FALSE,
   browserDisplay |-> 0, captureDisplay |-> 0, sinkCreated |-> FALSE,
   defaultSink |-> FALSE, routed |-> FALSE, bestEffort |-> "none",
   stages |-> <<>>, error |-> "none", tdMode |-> "none", tdLog |-> <<>>,
   tdErrors |-> {}, settled |-> FALSE, attempt |-> 0,
   actualDuration |-> 0, bufferTime |-> 0, totalTime |-> 0, waited |-> 0,
   clicked |-> 0,
   recStarted |-> FALSE, recTimer |-> FALSE, srState |-> "none", srTimer |-> FALSE,
   xdState |-> "none", xdTimer |-> FALSE, result |-> "none", resultError |-> "none"]

\* A call recordUrl(options) about to run. The options bufferTime and
\* clickSelectors are drawn where the code reads them.
CalledJob(start, par, auto, dur) ==
  [IdleJob EXCEPT !.pc = "start", !.displayStartNumber = start, !.parallelMode = par,
                  !.autoDetectDuration = auto, !.duration = dur]

\* An error thrown inside the try block: the catch block records it and
\* begins the emergency cleanup; actualDuration and bufferTime are read
\* inside the try block only.
Thrown(r, e) ==
  [r EXCEPT !.pc = "td_capture", !.error = e, !.tdMode = "emergency",
            !.actualDuration = 0, !.bufferTime = 0]

Done(r, stage) == [r EXCEPT !.stages = Append(@, stage)]

\* The error description of a failed job's result.
ResultErrorMasked(r) == IF r.tdErrors # {} THEN "cleanup" ELSE r.error
ResultError(r) == r.error

\* return {success, outputPath, error}
Returned(r) ==
  IF r.tdMode = "graceful"
  THEN [Done(r, "teardown") EXCEPT !.pc = "returned", !.result = "success"]
  ELSE [r EXCEPT !.pc = "returned", !.result = "failed", !.resultError = ResultError(r)]

\* A turn of recordUrl: it changes the locals of its own call.
JobStep(j, r) == Running /\ job' = [job EXCEPT ![j] = r] /\ UNCHANGED mainVars
OnlyJob == UNCHANGED <<procVars, xVars, cmVars>>

\* The validation of the duration arguments before the try block.
RecordUrlStart(j) ==
  LET r == job[j] IN
  /\ r.pc = "start"
  /\ IF r.duration = 0 /\ ~r.autoDetectDuration
     THEN JobStep(j, [r EXCEPT !.pc = "returned", !.result = "failed",
                               !.resultError = "arguments"])
     ELSE JobStep(j, [r EXCEPT !.pc = "sd_check"])
  /\ OnlyJob

\* ---- startDisplay(displayStartNumber, resolution, true)
SdCheckXvfb(j) ==
  LET r == job[j] IN
  /\ r.pc = "sd_check"
  /\ \E available \in BOOLEAN :
       JobStep(j, IF available THEN [r EXCEPT !.pc = "sd_first"] ELSE Thrown(r, "display"))
  /\ OnlyJob

\* spawn('Xvfb', [':n', ...]) and the wait for readiness begins.
SpawnXvfb(j, r, n) ==
  /\ \E b \in Behaviours : Spawned(<<j, "xvfb">>, b)
  /\ xLock' = [xLock EXCEPT ![n] = IF @ = NoProc THEN <<j, "xvfb">> ELSE @]
  /\ JobStep(j, [r EXCEPT !.pc = "sd_wait", !.sdNum = n])
  /\ UNCHANGED <<xServing, envDisplay, cmVars>>

\* The number findAvailableDisplay starts at when number n is in use.
FirstCandidateSkip(n) == n + 2
FirstCandidate(n) == n + 1

\* The first probe, of the preferred number; sdProbes counts the calls of
\* isDisplayInUse of the allocation.
SdFirstProbe(j) ==
  LET r == [job[j] EXCEPT !.sdProbes = @ + 1] n == r.displayStartNumber IN
  /\ r.pc = "sd_first"
  /\ IF IsDisplayInUse(n)
     THEN /\ IF r.autoRetry
             THEN JobStep(j, [r EXCEPT !.pc = "sd_find", !.sdNum = FirstCandidate(n),
                                       !.sdTries = 0])
             ELSE JobStep(j, Thrown(r, "display"))
          /\ OnlyJob
     ELSE SpawnXvfb(j, r, n)

\* findAvailableDisplay(displayNumber + 1): one iteration of its loop.
FindAvailableDisplay(j) ==
  LET r == [job[j] EXCEPT !.sdProbes = @ + 1] n == r.sdNum IN
  /\ r.pc = "sd_find"
  /\ IF ~IsDisplayInUse(n)
     THEN SpawnXvfb(j, r, n)
     ELSE /\ IF r.sdTries + 1 < MaxProbe
             THEN JobStep(j, [r EXCEPT !.sdNum = n + 1, !.sdTries = @ + 1])
             ELSE JobStep(j, Thrown([r EXCEPT !.sdNum = 0], "display"))
          /\ OnlyJob

\* The readiness poll of startDisplay finds the number served: the DISPLAY
\* variable of the recorder's environment is set and the call resolves.
SdPoll(j) ==
  LET r == job[j] IN
  /\ r.pc = "sd_wait"
  /\ IsDisplayInUse(r.sdNum)
  /\ envDisplay' = r.sdNum
  /\ JobStep(j, [Done(r, "display") EXCEPT !.pc = "audio", !.displayInfo = r.sdNum])
  /\ UNCHANGED <<procVars, xLock, xServing, cmVars>>

\* The 10 s startup timeout of startDisplay.
SdTimeout(j) ==
  LET r == job[j] IN
  /\ r.pc = "sd_wait"
  /\ Kill(<<j, "xvfb">>, "SIGTERM")
  /\ JobStep(j, Thrown(r, "display"))
  /\ UNCHANGED <<xVars, cmVars>>

\* ---- the stages whose collaborator either succeeds or throws
\* setupAudioRecording(sinkName, {skipDefault}): the function declares the
\* parameter sinkName only, and calls setDefaultSink after createVirtualSink
\* whatever else it is passed.
SetsDefaultSinkUnlessSkipped(skipDefault) == ~skipDefault
SetsDefaultSink(skipDefault) == TRUE

\* The outcomes of setupAudioRecording: createVirtualSink throws, or
\* setDefaultSink, when called, throws and leaves the default sink as it
\* was, or the sink is ready; defaultSink: set-default-sink was carried out;
\* sinkCreated: createVirtualSink loaded the sink of the job and no removal
\* of it has been attempted since.
AudioOutcomes == {"sinkFailed", "defaultFailed", "ready"}
AudioSetUp(r, outcome, next) ==
  IF outcome = "sinkFailed"
  THEN Thrown(r, "audio")
  ELSE IF outcome = "defaultFailed" /\ SetsDefaultSink(r.parallelMode)
  THEN [Thrown(r, "audio") EXCEPT !.sinkCreated = TRUE]
  ELSE [Done(r, "audio") EXCEPT !.pc = next, !.audioInfo = TRUE, !.sinkCreated = TRUE,
                                !.defaultSink = SetsDefaultSink(r.parallelMode)]

SetupAudioThenCapture(j) ==
  LET r == job[j] IN
  /\ r.pc = "audio"
  /\ \E outcome \in AudioOutcomes : JobStep(j, AudioSetUp(r, outcome, "rec_check"))
  /\ OnlyJob
SetupAudioRecording(j) ==
  LET r == job[j] IN
  /\ r.pc = "audio"
  /\ \E outcome \in AudioOutcomes : JobStep(j, AudioSetUp(r, outcome, "browser"))
  /\ OnlyJob

\* The display a child process is bound to when it is spawned with
\* env: {...process.env, DISPLAY: ':n'} and the number n among its
\* arguments: the property named after the spread replaces the inherited one.
ChildDisplayInherited(n) == IF envDisplay # 0 THEN envDisplay ELSE n
ChildDisplay(n) == n

\* launchBrowser(displayInfo.displayNumber, options)
LaunchBrowser(j) ==
  LET r == job[j] IN
  /\ r.pc = "browser"
  /\ \E ok \in BOOLEAN :
       JobStep(j, IF ok THEN [Done(r, "browser") EXCEPT
                                !.pc = "page", !.browser = TRUE,
                                !.browserDisplay = ChildDisplay(r.displayInfo)]
                        ELSE Thrown(r, "browser"))
  /\ OnlyJob

CreatePage(j) ==
  LET r == job[j] IN
  /\ r.pc = "page"
  /\ \E ok \in BOOLEAN :
       JobStep(j, IF ok THEN [r EXCEPT !.pc = "navigate"] ELSE Thrown(r, "page"))
  /\ OnlyJob

NavigateToUrl(j) ==
  LET r == job[j] IN
  /\ r.pc = "navigate"
  /\ \E ok \in BOOLEAN :
       JobStep(j, IF ok THEN [Done(r, "navigate") EXCEPT !.pc = "fullscreen"]
                        ELSE Thrown(r, "navigate"))
  /\ OnlyJob

\* setFullscreen: an error of the CDP calls is caught and logged.
\* bestEffort is the outcome of the best-effort step that ran last, until
\* the next stage has run.
FullscreenFailedThrows(r) == Thrown(r, "fullscreen")
FullscreenFailed(r) == [r EXCEPT !.pc = "findVideo", !.bestEffort = "fullscreenFailed"]
SetFullscreen(j) ==
  LET r == job[j] IN
  /\ r.pc = "fullscreen"
  /\ \E failed \in BOOLEAN :
       JobStep(j, IF failed THEN FullscreenFailed(r)
                  ELSE [r EXCEPT !.pc = "findVideo", !.bestEffort = "fullscreen"])
  /\ OnlyJob

FindVideoElement(j) ==
  LET r == [job[j] EXCEPT !.bestEffort = "none"] IN
  /\ r.pc = "findVideo"
  /\ \E ok \in BOOLEAN :
       JobStep(j, IF ok THEN [Done(r, "video") EXCEPT !.pc = "clicks"]
                        ELSE Thrown(r, "video"))
  /\ OnlyJob

\* clickIfExists(page, sel) and the 500 ms sleep, for one more click
\* selector of the list: a selector that is not found or not clickable is
\* logged and false returned.
ClickMissedThrows(r) == Thrown(r, "click")
ClickMissed(r) == [r EXCEPT !.clicked = @ + 1, !.bestEffort = "clickMissed"]
ClickIfExists(j) ==
  LET r == job[j] IN
  /\ r.pc = "clicks"
  /\ r.clicked < MaxClicks
  /\ \E found \in BOOLEAN :
       JobStep(j, IF found THEN [r EXCEPT !.clicked = @ + 1, !.bestEffort = "clicked"]
                  ELSE ClickMissed(r))
  /\ OnlyJob

\* The effective duration: ceil of the detected one when auto-detect is on
\* and it is a finite positive number, else the manual one, else none.
Round10(x) == (x + 5) \div 10
Ceil10(x) == (x + 9) \div 10
ResolveDuration(autoDetect, detected, duration) ==
  IF autoDetect
  THEN IF detected[1] = "number" /\ detected[2] > 0 THEN Ceil10(detected[2])
       ELSE IF duration # 0 THEN duration
       ELSE 0
  ELSE duration

\* getVideoMetadata and the duration resolution that follows it.
GetVideoMetadata(j) ==
  LET r == [job[j] EXCEPT !.bestEffort = "none"] IN
  /\ r.pc = "clicks"
  /\ \/ JobStep(j, Thrown([r EXCEPT !.clicked = 0], "metadata"))
     \/ \E d \in DetectedValues, bufferTime \in 0..MaxBuffer :
          LET actual == ResolveDuration(r.autoDetectDuration, d, r.duration) IN
          JobStep(j, IF actual = 0 THEN Thrown([r EXCEPT !.clicked = 0], "duration")
                     ELSE [Done(r, "duration") EXCEPT !.pc = "rec_check", !.clicked = 0,
                                                       !.actualDuration = actual,
                                                       !.bufferTime = bufferTime,
                                                       !.totalTime = actual + bufferTime])
  /\ OnlyJob

\* ---- startRecording(options)
\* checkFfmpegAvailable, then spawn('ffmpeg', ...) and the 5 s startup timer.
StartRecording(j) ==
  LET r == job[j] IN
  /\ r.pc = "rec_check"
  /\ \/ /\ JobStep(j, Thrown(r, "capture"))
        /\ OnlyJob
     \/ /\ \E b \in Behaviours : Spawned(<<j, "ffmpeg">>, b)
        /\ JobStep(j, [r EXCEPT !.pc = "rec_wait", !.recTimer = TRUE,
                                 !.captureDisplay = ChildDisplay(r.displayInfo)])
        /\ UNCHANGED <<xVars, cmVars>>

\* ffmpeg prints frame=/time= on stderr: started = true.
FfmpegProgress(j) ==
  LET r == job[j] IN
  /\ r.pc = "rec_wait"
  /\ procState[<<j, "ffmpeg">>] = "running"
  /\ ~r.recStarted
  /\ JobStep(j, [r EXCEPT !.recStarted = TRUE])
  /\ OnlyJob

\* startRecording resolves with the handle; the settle delay follows.
RecordingStartedThenPlay(r) ==
  [Done(r, "capture") EXCEPT !.pc = "play", !.recTimer = FALSE, !.ffmpegProcess = TRUE]
RecordingStarted(r) ==
  [Done(r, "capture") EXCEPT !.pc = "settle", !.recTimer = FALSE, !.ffmpegProcess = TRUE]

\* The 200 ms startup check sees started: startRecording resolves.
RecPoll(j) ==
  LET r == job[j] IN
  /\ r.pc = "rec_wait"
  /\ r.recStarted
  /\ JobStep(j, RecordingStarted(r))
  /\ OnlyJob

\* The 5 s startup timer of startRecording.
RecTimeout(j) ==
  LET r == job[j] IN
  /\ r.pc = "rec_wait"
  /\ r.recTimer
  /\ IF r.recStarted
     THEN /\ JobStep(j, RecordingStarted(r))
          /\ OnlyJob
     ELSE /\ Kill(<<j, "ffmpeg">>, "SIGTERM")
          /\ JobStep(j, Thrown([r EXCEPT !.recTimer = FALSE], "capture"))
          /\ UNCHANGED <<xVars, cmVars>>

\* await sleep(1000) after startRecording.
Settle(j) ==
  LET r == job[j] IN
  /\ r.pc = "settle"
  /\ JobStep(j, [r EXCEPT !.pc = "play", !.settled = TRUE])
  /\ OnlyJob

\* playVideo: one attempt of its loop; it returns at the first attempt
\* verified as playing and throws when the last attempt fails.
PlayOutcomes == {"playing", "playFailed", "notPlaying", "thrown"}
\* if (parallelMode && browser.process()): the first operand.
RoutesAudioAlways(r) == TRUE
RoutesAudio(r) == r.parallelMode
\* The attempt after which the loop of playVideo ends with an error.
LastAttemptEarly(n) == n = MaxAttempts - 1
LastAttempt(n) == n = MaxAttempts
PlayVideo(j) ==
  LET r == job[j] IN
  /\ r.pc = "play"
  /\ \E outcome \in PlayOutcomes :
       LET a == [r EXCEPT !.attempt = @ + 1] IN
       JobStep(j, IF outcome = "playing"
                  THEN [Done(a, "play") EXCEPT !.pc = IF RoutesAudio(r) THEN "route" ELSE "wait"]
                  ELSE IF LastAttempt(a.attempt) THEN Thrown(a, "play") ELSE a)
  /\ OnlyJob

\* In parallel mode: moveBrowserSinkInputs(sinkName, browserPid) is called
\* when browser.process() is not null; it returns or throws.
MoveBrowserSinkInputs(j) ==
  LET r == job[j] IN
  /\ r.pc = "route"
  /\ \E outcome \in {"noProcess", "moved", "failed"} :
       JobStep(j, CASE outcome = "noProcess" -> [r EXCEPT !.pc = "wait"]
                    [] outcome = "moved" -> [r EXCEPT !.pc = "wait", !.routed = TRUE]
                    [] OTHER -> Thrown([r EXCEPT !.routed = TRUE], "route"))
  /\ OnlyJob

\* The wait loop for (i = 1; i <= totalTime; i++): one sleep(1000) per
\* iteration; waited is i - 1.
WaitLoopContinuesShort(r) == r.waited + 1 < r.totalTime
WaitLoopContinues(r) == r.waited + 1 <= r.totalTime
WaitSecond(j) ==
  LET r == job[j] IN
  /\ r.pc = "wait"
  /\ WaitLoopContinues(r)
  /\ JobStep(j, [r EXCEPT !.waited = @ + 1])
  /\ OnlyJob

WaitDone(j) ==
  LET r == job[j] IN
  /\ r.pc = "wait"
  /\ ~WaitLoopContinues(r)
  /\ JobStep(j, [Done(r, "wait") EXCEPT !.pc = "td_capture", !.tdMode = "graceful",
                                        !.actualDuration = 0, !.bufferTime = 0])
  /\ OnlyJob

\* ---- teardown: the graceful shutdown of the try block and the emergency
\* cleanup of the catch block call the same four operations in one order.
TeardownAfterSwapped(step) ==
  CASE step = "capture" -> "td_display"
    [] step = "display" -> "td_browser"
    [] step = "browser" -> "td_audio"
    [] OTHER -> "return"
TeardownAfter(step) ==
  CASE step = "capture" -> "td_browser"
    [] step = "browser" -> "td_display"
    [] step = "display" -> "td_audio"
    [] OTHER -> "return"

Held(r, step) ==
  CASE step = "capture" -> r.ffmpegProcess
    [] step = "browser" -> r.browser
    [] step = "display" -> r.displayInfo # 0
    [] OTHER -> r.audioInfo

\* Whether the step is called: always in the try block, under
\* if (resource) in the catch block.
NeedsTeardownAlways(r, step) == TRUE
NeedsTeardown(r, step) == r.tdMode = "graceful" \/ Held(r, step)

Goto(r, next) == IF next = "return" THEN Returned(r) ELSE [r EXCEPT !.pc = next]

\* The try block sets the variable to null after its step; the catch block
\* does not.
Released(r, step) ==
  IF r.tdMode # "graceful" THEN r
  ELSE CASE step = "capture" -> [r EXCEPT !.ffmpegProcess = FALSE, !.captureDisplay = 0]
         [] step = "browser" -> [r EXCEPT !.browser = FALSE, !.browserDisplay = 0]
         [] step = "display" -> [r EXCEPT !.displayInfo = 0]
         [] OTHER -> [r EXCEPT !.audioInfo = FALSE]

Called(r, step) == [r EXCEPT !.tdLog = Append(@, step)]
Logged(r, step, failed) == IF failed THEN [r EXCEPT !.tdErrors = @ \cup {step}] ELSE r

\* An if (resource) of the catch block that is false: the step is skipped.
SkipTeardown(j, step) ==
  LET r == job[j] IN
  /\ r.pc = "td_" \o step
  /\ ~NeedsTeardown(r, step)
  /\ JobStep(j, Goto(r, TeardownAfter(step)))
  /\ OnlyJob

\* stopRecording(ffmpegProcess, gracePeriod): the exit listener, SIGINT and
\* the force timer; a throwing kill resolves at once.
StopRecording(j) ==
  LET r == job[j] p == <<j, "ffmpeg">> IN
  /\ r.pc = "td_capture"
  /\ NeedsTeardown(r, "capture")
  /\ Kill(p, "SIGINT")
  /\ JobStep(j, IF KillThrows(p)
                THEN [Logged(Called(r, "capture"), "capture", TRUE)
                        EXCEPT !.pc = "td_capture_w", !.srState = "resolved"]
                ELSE [Called(r, "capture")
                        EXCEPT !.pc = "td_capture_w", !.srState = "pending", !.srTimer = TRUE])
  /\ UNCHANGED <<xVars, cmVars>>

\* The force timer of stopRecording fires after gracePeriod.
StopRecordingTimeout(j) ==
  LET r == job[j] p == <<j, "ffmpeg">> IN
  /\ r.srTimer
  /\ IF r.srState = "pending" /\ procKilled[p] = FALSE
     THEN /\ Kill(p, "SIGKILL")
          /\ JobStep(j, [r EXCEPT !.srTimer = FALSE, !.srState = "resolved"])
     ELSE /\ JobStep(j, [r EXCEPT !.srTimer = FALSE])
          /\ UNCHANGED procVars
  /\ UNCHANGED <<xVars, cmVars>>

\* await stopRecording(...) returns.
StopRecordingDone(j) ==
  LET r == job[j] IN
  /\ r.pc = "td_capture_w"
  /\ r.srState = "resolved"
  /\ JobStep(j, Goto(Released(r, "capture"), TeardownAfter("capture")))
  /\ OnlyJob

\* closeBrowser(browser): browser.close() is awaited.
CloseBrowser(j) ==
  LET r == job[j] IN
  /\ r.pc = "td_browser"
  /\ NeedsTeardown(r, "browser")
  /\ JobStep(j, [Called(r, "browser") EXCEPT !.pc = "td_browser_w"])
  /\ OnlyJob

\* closeBrowser returns: an error of browser.close() is logged, not thrown.
CloseBrowserAborts(j) ==
  LET r == job[j] IN
  /\ r.pc = "td_browser_w"
  /\ \E failed \in BOOLEAN :
       JobStep(j, IF failed THEN Returned(Logged(r, "browser", TRUE))
                  ELSE Goto(Released(r, "browser"), TeardownAfter("browser")))
  /\ OnlyJob
CloseBrowserDone(j) ==
  LET r == job[j] IN
  /\ r.pc = "td_browser_w"
  /\ \E failed \in BOOLEAN :
       JobStep(j, Goto(Released(Logged(r, "browser", failed), "browser"),
                       TeardownAfter("browser")))
  /\ OnlyJob

\* stopDisplay(displayInfo): SIGTERM and the 5 s timer; a throwing kill
\* resolves at once.
StopDisplay(j) ==
  LET r == job[j] p == <<j, "xvfb">> IN
  /\ r.pc = "td_display"
  /\ NeedsTeardown(r, "display")
  /\ Kill(p, "SIGTERM")
  /\ JobStep(j, IF KillThrows(p)
                THEN [Logged(Called(r, "display"), "display", TRUE)
                        EXCEPT !.pc = "td_display_w", !.xdState = "resolved"]
                ELSE [Called(r, "display")
                        EXCEPT !.pc = "td_display_w", !.xdState = "pending", !.xdTimer = TRUE])
  /\ UNCHANGED <<xVars, cmVars>>

\* The 5 s timer of stopDisplay: SIGKILL, then resolve.
StopDisplayTimeout(j) ==
  LET r == job[j] p == <<j, "xvfb">> IN
  /\ r.xdTimer
  /\ Kill(p, "SIGKILL")
  /\ JobStep(j, [r EXCEPT !.xdTimer = FALSE, !.xdState = "resolved"])
  /\ UNCHANGED <<xVars, cmVars>>

StopDisplayDone(j) ==
  LET r == job[j] IN
  /\ r.pc = "td_display_w"
  /\ r.xdState = "resolved"
  /\ JobStep(j, Goto(Released(r, "display"), TeardownAfter("display")))
  /\ OnlyJob

\* cleanupAudioRecording(audioInfo.sinkName)
CleanupAudioRecording(j) ==
  LET r == job[j] IN
  /\ r.pc = "td_audio"
  /\ NeedsTeardown(r, "audio")
  /\ JobStep(j, [Called(r, "audio") EXCEPT !.pc = "td_audio_w", !.sinkCreated = FALSE])
  /\ OnlyJob

\* cleanupAudioRecording returns: an error is logged, not thrown.
CleanupAudioDone(j) ==
  LET r == job[j] IN
  /\ r.pc = "td_audio_w"
  /\ \E failed \in BOOLEAN :
       JobStep(j, Goto(Released(Logged(r, "audio", failed), "audio"),
                       TeardownAfter("audio")))
  /\ OnlyJob

\* ------------------------------------------------------------ exit events
\* The exit listeners of startDisplay, stopDisplay, startRecording and
\* stopRecording, as far as they are registered and their promise pending.
JobOnExit(r, kind, code) ==
  IF kind = "xvfb"
  THEN LET a == IF r.xdState = "pending"
                THEN [r EXCEPT !.xdState = "resolved", !.xdTimer = FALSE]
                ELSE [r EXCEPT !.xdTimer = FALSE]
       IN IF r.pc = "sd_wait"
          THEN IF code = "nonzero" THEN Thrown(a, "display") ELSE [a EXCEPT !.pc = "sd_hung"]
          ELSE a
  ELSE LET a == IF r.srState = "pending"
                THEN [r EXCEPT !.srState = "resolved", !.srTimer = FALSE]
                ELSE [r EXCEPT !.srTimer = FALSE]
       IN IF r.pc = "rec_wait"
          THEN IF code = "nonzero" THEN Thrown([a EXCEPT !.recTimer = FALSE], "capture")
               ELSE [a EXCEPT !.recTimer = FALSE]
          ELSE a

\* A child process ends and its exit event is emitted to every listener.
ProcExit(p) ==
  /\ CanExit(p)
  /\ \E code \in (IF Doomed(p) THEN {"nonzero"} ELSE ExitCodes) :
       job' = IF Running THEN [job EXCEPT ![p[1]] = JobOnExit(@, Name(p), code)] ELSE job
  /\ procState' = [procState EXCEPT ![p] = "exited"]
  /\ xLock' = [n \in DisplayNums |-> IF xLock[n] = p THEN NoProc ELSE xLock[n]]
  /\ xServing' = [n \in DisplayNums |-> IF xLock[n] = p THEN FALSE ELSE xServing[n]]
  /\ KpOnExit(p)
  /\ processes' = IF p \in execListeners /\ processes[Name(p)] # NoProc
                  THEN [processes EXCEPT ![Name(p)] = NoProc]
                  ELSE processes
  /\ UNCHANGED <<mainVars, envDisplay, procKilled, procBehav, procSigs, cleanupHandlers,
                 isCleaningUp, caPc, caIdx, caKills, handlerCalls, handlerThrew, passes,
                 termPasses>>

\* ----------------------------------------------------------- specifications
IdleJobs == job = [j \in Jobs |-> IdleJob]

\* The cleanup coordinator under a client that tracks, untracks, registers
\* handlers and invokes cleanupAll in any order.
\* No duration resolution under way.
NoCall == [state |-> "none", autoDetect |-> FALSE, detected |-> <<"NaN", 0>>,
           manual |-> 0, result |-> 0]

\* No batch run.
NoBatch == [n |-> 0, k |-> 0, queue |-> 1, inFlight |-> {}, results |-> <<>>,
            started |-> <<>>, finished |-> <<>>]

InitMain == execListeners = {} /\ dr = NoCall /\ mainPc = "idle" /\ exitCode = -1 /\ batch = NoBatch

InitCM == InitProcs /\ InitCleanup /\ InitX({}) /\ IdleJobs /\ InitMain

NextCM ==
  \/ /\ \E p \in Procs : ExecTracked(p)
     /\ UNCHANGED <<xVars, job>>
  \/ /\ \/ \E p \in Procs : TrackProcess(p)
        \/ \E n \in Kinds : UntrackProcess(n)
        \/ \E h \in Handlers : RegisterCleanupHandler(h)
        \/ \E c \in Callers : CleanupAll(c)
        \/ \E c \in Callers : HandlerSettles(c)
        \/ \E c \in Callers : CleanupAllDone(c)
        \/ \E p \in Procs : KillProcessTimeout(p)
     /\ UNCHANGED <<xVars, job, mainVars>>
  \/ \E p \in Procs : ProcExit(p)

SpecCleanup == InitCM /\ [][NextCM]_vars

\* The cleanup coordinator as a library: the display server of every job is
\* tracked under the name 'xvfb', an uncaught exception can be raised at any
\* time, and cleanupAll is invoked at any time. Invocations are numbered in
\* the order they are made (NextCaller).
NextRegistry ==
  \/ /\ \/ \E p \in Procs : Name(p) = "xvfb" /\ TrackHandle(p)
        \/ \E n \in Kinds : UntrackProcess(n)
        \/ \E h \in Handlers : RegisterCleanupHandler(h)
        \/ \E c \in Callers : NextCaller(c) /\ CleanupAll(c)
        \/ \E c \in Callers : HandlerSettles(c)
        \/ \E c \in Callers : CleanupAllDone(c)
        \/ \E p \in Procs : KillProcessTimeout(p)
     /\ UNCHANGED <<xVars, job, mainVars>>
  \/ \E c \in Callers : UncaughtException(c)
  \/ \E p \in Procs : ProcExit(p)

SpecRegistry == InitCM /\ [][NextRegistry]_vars

\* One call of recordUrl, as runSingle makes it.
Init ==
  /\ InitProcs /\ InitCleanup /\ InitMain
  /\ \E ext \in ExtChoices : InitX(ext)
  /\ \E par, auto \in BOOLEAN, dur \in 0..MaxDuration :
       job = [j \in Jobs |-> IF j = 1 THEN CalledJob(DisplayStart, par, auto, dur)
                             ELSE IdleJob]

\* The turns of a recordUrl call outside the parallel mode.
JobNextSerial(j) ==
  \/ RecordUrlStart(j)
  \/ SdCheckXvfb(j)
  \/ SdFirstProbe(j)
  \/ FindAvailableDisplay(j)
  \/ XvfbReady(j)
  \/ SdPoll(j)
  \/ SdTimeout(j)
  \/ SetupAudioRecording(j)
  \/ LaunchBrowser(j)
  \/ CreatePage(j)
  \/ NavigateToUrl(j)
  \/ SetFullscreen(j)
  \/ FindVideoElement(j)
  \/ ClickIfExists(j)
  \/ GetVideoMetadata(j)
  \/ StartRecording(j)
  \/ FfmpegProgress(j)
  \/ RecPoll(j)
  \/ RecTimeout(j)
  \/ Settle(j)
  \/ PlayVideo(j)
  \/ WaitSecond(j)
  \/ WaitDone(j)
  \/ \E step \in {"capture", "browser", "display", "audio"} : SkipTeardown(j, step)
  \/ StopRecording(j)
  \/ StopRecordingTimeout(j)
  \/ StopRecordingDone(j)
  \/ CloseBrowser(j)
  \/ CloseBrowserDone(j)
  \/ StopDisplay(j)
  \/ StopDisplayTimeout(j)
  \/ StopDisplayDone(j)
  \/ CleanupAudioRecording(j)
  \/ CleanupAudioDone(j)

JobNext(j) ==
  \/ JobNextSerial(j)
  \/ MoveBrowserSinkInputs(j)

Next ==
  \/ \E j \in Jobs : JobNext(j)
  \/ \E p \in Procs : ProcExit(p)

Spec == Init /\ [][Next]_vars

\* Jobs that run at the same time, as the parallel batch mode runs them:
\* each recordUrl call is followed from its start through the acquisition of
\* the display, the sink and the browser, and through the emergency cleanup
\* when one of these fails.
StartNumbers == {DisplayStart, DisplayStart + 1}

InitDisplay ==
  /\ InitProcs /\ InitCleanup /\ InitMain
  /\ \E ext \in ExtChoices : InitX(ext)
  /\ \E start \in [Jobs -> StartNumbers] :
       job = [j \in Jobs |-> CalledJob(start[j], TRUE, FALSE, 1)]

NextDisplay ==
  \/ \E j \in Jobs :
       \/ RecordUrlStart(j)
       \/ SdCheckXvfb(j)
       \/ SdFirstProbe(j)
       \/ FindAvailableDisplay(j)
       \/ XvfbReady(j)
       \/ SdPoll(j)
       \/ SdTimeout(j)
       \/ SetupAudioRecording(j)
       \/ LaunchBrowser(j)
       \/ \E step \in {"capture", "browser", "display", "audio"} : SkipTeardown(j, step)
       \/ StopDisplay(j)
       \/ StopDisplayTimeout(j)
       \/ StopDisplayDone(j)
       \/ CleanupAudioRecording(j)
       \/ CleanupAudioDone(j)
  \/ \E p \in Procs : ProcExit(p)

SpecDisplay == InitDisplay /\ [][NextDisplay]_vars

\* Two jobs of the parallel batch mode running at the same time: job 1 is
\* followed from its call to the start of its capture process, the other
\* job through its startDisplay call.
Pair == {1, 2}

InitBinding ==
  /\ InitProcs /\ InitCleanup /\ InitMain /\ InitX({})
  /\ \E start \in [Pair -> StartNumbers] :
       job = [j \in Jobs |-> IF j \in Pair THEN CalledJob(start[j], TRUE, FALSE, 1)
                             ELSE IdleJob]

NextBinding ==
  \/ \E j \in Pair :
       \/ RecordUrlStart(j)
       \/ SdCheckXvfb(j)
       \/ SdFirstProbe(j)
       \/ FindAvailableDisplay(j)
       \/ XvfbReady(j)
       \/ SdPoll(j)
       \/ SdTimeout(j)
  \/ SetupAudioRecording(1)
  \/ LaunchBrowser(1)
  \/ CreatePage(1)
  \/ NavigateToUrl(1)
  \/ SetFullscreen(1)
  \/ FindVideoElement(1)
  \/ ClickIfExists(1)
  \/ GetVideoMetadata(1)
  \/ StartRecording(1)
  \/ FfmpegProgress(1)
  \/ RecPoll(1)
  \/ RecTimeout(1)
  \/ \E p \in Procs : ProcExit(p)

SpecBinding == InitBinding /\ [][NextBinding]_vars

\* ---- the recorder process in single mode: main, runSingle, the signal
\* handlers of the cleanup manager
\* runSingle validates the duration arguments and calls recordUrl.
RunSingle ==
  /\ Running /\ mainPc = "single"
  /\ IF job[1].duration = 0 /\ ~job[1].autoDetectDuration
     THEN /\ exitCode' = 1
          /\ UNCHANGED <<mainPc, job>>
     ELSE /\ mainPc' = "await"
          /\ job' = [job EXCEPT ![1].pc = "start"]
          /\ UNCHANGED exitCode
  /\ UNCHANGED <<procVars, xVars, cmVars, execListeners, dr, batch>>

\* await recordUrl(...) returns its result: process.exit(1) when the job
\* failed, else runSingle and main return.
RunSingleResult ==
  /\ Running /\ mainPc = "await"
  /\ job[1].pc = "returned"
  /\ IF job[1].result = "success"
     THEN mainPc' = "done" /\ UNCHANGED exitCode
     ELSE exitCode' = 1 /\ UNCHANGED mainPc
  /\ UNCHANGED <<procVars, xVars, cmVars, job, execListeners, dr, batch>>

\* main has returned and no timer is left: the event loop is empty and the
\* process ends with status 0.
MainEnds ==
  /\ Running /\ mainPc = "done"
  /\ \A p \in Procs : ~kpTimer[p]
  /\ \A j \in Jobs : ~job[j].srTimer /\ ~job[j].xdTimer /\ ~job[j].recTimer
  /\ exitCode' = 0
  /\ UNCHANGED <<procVars, xVars, cmVars, job, execListeners, dr, mainPc, batch>>

\* SIGINT or SIGTERM is delivered to the recorder process: the listener of
\* the cleanup manager calls cleanupAll and returns.
Signal(c) ==
  /\ Running
  /\ \A d \in Callers : d < c => caPc[d] # "idle"
  /\ CleanupAll(c)
  /\ UNCHANGED <<xVars, job, mainVars>>

InitSingle ==
  /\ InitProcs /\ InitCleanup
  /\ \E ext \in {{}, {DisplayStart}} : InitX(ext)
  /\ execListeners = {} /\ dr = NoCall /\ mainPc = "single" /\ exitCode = -1 /\ batch = NoBatch
  /\ \E auto \in BOOLEAN, dur \in 0..MaxDuration :
       job = [j \in Jobs |-> IF j = 1
                             THEN [CalledJob(DisplayStart, FALSE, auto, dur) EXCEPT !.pc = "idle"]
                             ELSE IdleJob]

\* The return of a cleanupAll call that a signal made.
SignalCleanupDone(c) ==
  /\ Running
  /\ CleanupAllDone(c)
  /\ UNCHANGED <<xVars, job, mainVars>>

NextSingle ==
  \/ RunSingle
  \/ JobNextSerial(1)
  \/ \E p \in Procs : ProcExit(p)
  \/ RunSingleResult
  \/ MainEnds
  \/ \E c \in Callers : Signal(c)
  \/ \E c \in Callers : SignalCleanupDone(c)

SpecSingle == InitSingle /\ [][NextSingle]_vars

\* ---- the display allocation of startDisplay on its own: the preferred
\* number, the autoRetry argument and the numbers that servers of other
\* programs hold are drawn; the call is followed until it resolves or throws.
AllocExtChoices ==
  SUBSET (DisplayStart..(DisplayStart + MaxExternal + 1)) \cup {DisplayNums}

InitAlloc ==
  /\ InitProcs /\ InitCleanup /\ InitMain
  /\ \E ext \in AllocExtChoices : InitX(ext)
  /\ \E start \in StartNumbers, retry \in BOOLEAN :
       job = [j \in Jobs |-> IF j = 1
                             THEN [CalledJob(start, FALSE, FALSE, 1)
                                     EXCEPT !.pc = "sd_check", !.autoRetry = retry]
                             ELSE IdleJob]

NextAlloc ==
  \/ SdCheckXvfb(1)
  \/ SdFirstProbe(1)
  \/ FindAvailableDisplay(1)
  \/ XvfbReady(1)
  \/ SdPoll(1)

SpecAlloc == InitAlloc /\ [][NextAlloc]_vars

\* ---- the duration policy of recordUrl on its own: every combination of
\* the auto-detect flag, the duration the page reports and the manual
\* duration that passes the validation at the start of recordUrl.
DetectedInputs ==
  {<<"NaN", 0>>, <<"Infinity", 0>>} \cup {<<"number", d>> : d \in 0..MaxDetected}

InitDuration ==
  /\ InitProcs /\ InitCleanup /\ InitX({}) /\ IdleJobs
  /\ execListeners = {} /\ mainPc = "idle" /\ exitCode = -1 /\ batch = NoBatch
  /\ \E auto \in BOOLEAN, d \in DetectedInputs, manual \in 0..MaxDuration :
       /\ ~(manual = 0 /\ ~auto)
       /\ dr = [state |-> "called", autoDetect |-> auto, detected |-> d,
                manual |-> manual, result |-> 0]

\* The duration block of recordUrl runs: actualDuration is set or the error
\* is thrown.
DurationResolved ==
  /\ dr.state = "called"
  /\ LET actual == ResolveDuration(dr.autoDetect, dr.detected, dr.manual) IN
       dr' = IF actual = 0 THEN [dr EXCEPT !.state = "failed"]
             ELSE [dr EXCEPT !.state = "returned", !.result = actual]
  /\ UNCHANGED <<procVars, xVars, cmVars, job, execListeners, mainPc, batch, exitCode>>

NextDuration == DurationResolved

SpecDuration == InitDuration /\ [][NextDuration]_vars

\* ---- the recorder process in batch mode: runBatch and the worker pool of
\* lib/batch.js (runSequential, runParallel), which calls recordUrl once per
\* URL; a recordUrl call is followed from its start to its result.
Min(a, b) == IF a <= b THEN a ELSE b

\* runBatch: runSequential when concurrency <= 1, else runParallel with the
\* concurrency as the size of the pool.
PoolSizePlusOne(k) == k + 1
PoolSize(k) == IF k <= 1 THEN 1 ELSE k

\* The queued URL a free worker takes: the first one not started.
NextQueuedLast(b) == b.n
NextQueued(b) == b.queue

\* runBatch starts the pool: each worker takes a URL from the queue and calls
\* recordUrl.
RunBatch ==
  /\ Running /\ mainPc = "batch"
  /\ LET first == Min(PoolSize(batch.k), batch.n) IN
       batch' = [batch EXCEPT !.inFlight = 1..first, !.queue = first + 1,
                              !.started = [i \in 1..first |-> i]]
  /\ mainPc' = "batch_await"
  /\ UNCHANGED <<procVars, xVars, cmVars, job, execListeners, dr, exitCode>>

\* The recordUrl call for URL i returns its result; the worker stores it and
\* takes the next queued URL when there is one.
BatchJobReturns(i) ==
  /\ Running /\ mainPc = "batch_await"
  /\ i \in batch.inFlight
  /\ \E outcome \in {"success", "failed"} :
       LET b == [batch EXCEPT !.results[i] = outcome, !.finished = Append(@, i),
                              !.inFlight = @ \ {i}]
       IN batch' = IF b.queue <= b.n
                   THEN [b EXCEPT !.inFlight = @ \cup {NextQueued(b)},
                                  !.started = Append(@, NextQueued(b)),
                                  !.queue = @ + 1]
                   ELSE b
  /\ UNCHANGED <<procVars, xVars, cmVars, job, execListeners, dr, mainPc, exitCode>>

\* The pool has returned the results: process.exit(1) when a result is
\* unsuccessful, else runBatch and main return.
FailuresNone(b) == {}
Failures(b) == {i \in 1..b.n : b.results[i] # "success"}
RunBatchResult ==
  /\ Running /\ mainPc = "batch_await"
  /\ batch.inFlight = {} /\ batch.queue > batch.n
  /\ IF Failures(batch) # {}
     THEN exitCode' = 1 /\ UNCHANGED mainPc
     ELSE mainPc' = "done" /\ UNCHANGED exitCode
  /\ UNCHANGED <<procVars, xVars, cmVars, job, execListeners, dr, batch>>

InitBatch ==
  /\ InitProcs /\ InitCleanup /\ InitX({}) /\ IdleJobs
  /\ execListeners = {} /\ dr = NoCall /\ mainPc = "batch" /\ exitCode = -1
  /\ \E n \in 1..MaxUrls, k \in 1..MaxConcurrency :
       batch = [NoBatch EXCEPT !.n = n, !.k = k, !.results = [i \in 1..n |-> "none"]]

NextBatch ==
  \/ RunBatch
  \/ \E i \in 1..MaxUrls : BatchJobReturns(i)
  \/ RunBatchResult
  \/ MainEnds

SpecBatch == InitBatch /\ [][NextBatch]_vars

\* main: batch mode when --batch is given, else single mode.
InitProgram == InitSingle \/ InitBatch
NextProgram == NextSingle \/ NextBatch
SpecProgram == InitProgram /\ [][NextProgram]_vars

\* ---- the main program of src/record.js: the workflow of one recording
\* inside cleanupManager.withCleanup, with its own try/catch. The promises of
\* its stopRecording and stopDisplay calls are those of job 1.
\* The catch block of main: it logs the error and calls process.exit(1).
CatchRethrows == FALSE
CatchExits == TRUE
MainCatch ==
  IF CatchExits
  THEN exitCode' = 1 /\ UNCHANGED mainPc
  ELSE mainPc' = "finally_err" /\ UNCHANGED exitCode

\* Step 1: startDisplay, then trackProcess('xvfb', ...).
MainStartDisplay ==
  /\ Running /\ mainPc = "m_display"
  /\ \/ MainCatch /\ UNCHANGED <<procVars, cmVars>>
     \/ /\ TrackProcess(<<1, "xvfb">>)
        /\ mainPc' = "m_audio" /\ UNCHANGED exitCode
  /\ UNCHANGED <<xVars, job, execListeners, dr, batch>>

\* Step 2: setupAudioRecording, then the audio cleanup handler is registered.
MainSetupAudio ==
  /\ Running /\ mainPc = "m_audio"
  /\ \/ MainCatch /\ UNCHANGED <<procVars, cmVars>>
     \/ /\ RegisterCleanupHandler(1)
        /\ mainPc' = "m_capture" /\ UNCHANGED exitCode
  /\ UNCHANGED <<xVars, job, execListeners, dr, batch>>

\* Step 3: startRecording, then trackProcess('ffmpeg', ...).
MainStartRecording ==
  /\ Running /\ mainPc = "m_capture"
  /\ \/ MainCatch /\ UNCHANGED <<procVars, cmVars>>
     \/ /\ TrackProcess(<<1, "ffmpeg">>)
        /\ mainPc' = "m_browser" /\ UNCHANGED exitCode
  /\ UNCHANGED <<xVars, job, execListeners, dr, batch>>

\* Steps 4 and 5: launchBrowser, createPage, navigateToUrl.
MainLaunchBrowser ==
  /\ Running /\ mainPc = "m_browser"
  /\ \/ MainCatch
     \/ mainPc' = "m_play" /\ UNCHANGED exitCode
  /\ UNCHANGED <<procVars, xVars, cmVars, job, execListeners, dr, batch>>

\* Steps 6 and 7: findAndPlayVideo, the duration and the wait loop.
MainPlayAndWait ==
  /\ Running /\ mainPc = "m_play"
  /\ \/ MainCatch
     \/ mainPc' = "m_stop" /\ UNCHANGED exitCode
  /\ UNCHANGED <<procVars, xVars, cmVars, job, execListeners, dr, batch>>

\* stopRecording(ffmpegProcess, 10000) is called.
MainStopRecording ==
  LET p == <<1, "ffmpeg">> IN
  /\ Running /\ mainPc = "m_stop"
  /\ Kill(p, "SIGINT")
  /\ job' = [job EXCEPT ![1].srState = IF KillThrows(p) THEN "resolved" ELSE "pending",
                         ![1].srTimer = ~KillThrows(p)]
  /\ mainPc' = "m_stop_w"
  /\ UNCHANGED <<xVars, cmVars, execListeners, dr, batch, exitCode>>

\* stopRecording has resolved: untrackProcess('ffmpeg').
MainStopRecordingDone ==
  /\ Running /\ mainPc = "m_stop_w"
  /\ job[1].srState = "resolved"
  /\ processes' = [processes EXCEPT !["ffmpeg"] = NoProc]
  /\ mainPc' = "m_close"
  /\ UNCHANGED <<procVars, xVars, job, execListeners, dr, batch, exitCode,
                 cleanupHandlers, isCleaningUp, caPc, caIdx, caKills, kpState, kpTimer,
                 handlerCalls, handlerThrew, passes, termPasses>>

\* closeBrowser(browser): an error is logged.
MainCloseBrowser ==
  /\ Running /\ mainPc = "m_close"
  /\ mainPc' = "m_stopdisplay"
  /\ UNCHANGED <<procVars, xVars, cmVars, job, execListeners, dr, batch, exitCode>>

\* stopDisplay(displayInfo) is called.
MainStopDisplay ==
  LET p == <<1, "xvfb">> IN
  /\ Running /\ mainPc = "m_stopdisplay"
  /\ Kill(p, "SIGTERM")
  /\ job' = [job EXCEPT ![1].xdState = IF KillThrows(p) THEN "resolved" ELSE "pending",
                         ![1].xdTimer = ~KillThrows(p)]
  /\ mainPc' = "m_stopdisplay_w"
  /\ UNCHANGED <<xVars, cmVars, execListeners, dr, batch, exitCode>>

\* stopDisplay has resolved: untrackProcess('xvfb').
MainStopDisplayDone ==
  /\ Running /\ mainPc = "m_stopdisplay_w"
  /\ job[1].xdState = "resolved"
  /\ processes' = [processes EXCEPT !["xvfb"] = NoProc]
  /\ mainPc' = "m_cleanaudio"
  /\ UNCHANGED <<procVars, xVars, job, execListeners, dr, batch, exitCode,
                 cleanupHandlers, isCleaningUp, caPc, caIdx, caKills, kpState, kpTimer,
                 handlerCalls, handlerThrew, passes, termPasses>>

\* cleanupAudioRecording, the success banner, and the callback returns.
MainCleanupAudio ==
  /\ Running /\ mainPc = "m_cleanaudio"
  /\ mainPc' = "finally"
  /\ job' = [job EXCEPT ![1] = Called(@, "audio")]
  /\ UNCHANGED <<procVars, xVars, cmVars, execListeners, dr, batch, exitCode>>

\* withCleanup: the finally block calls cleanupAll('withCleanup'). The
\* callback has untracked both processes when it returns, so the pass calls
\* the handler and finds no process to signal.
WithCleanupFinally ==
  /\ Running /\ mainPc \in {"finally", "finally_err"}
  /\ CleanupAll(1)
  /\ mainPc' = IF mainPc = "finally" THEN "cleanup" ELSE "cleanup_err"
  /\ UNCHANGED <<xVars, job, execListeners, dr, batch, exitCode>>

\* The audio cleanup handler called by the pass returns or throws.
WithCleanupHandlerSettles ==
  /\ Running
  /\ HandlerSettles(1)
  /\ UNCHANGED <<xVars, job, mainVars>>

\* cleanupAll has returned: withCleanup returns, or rethrows the error of
\* the callback to main().catch, which calls process.exit(1).
WithCleanupDone ==
  /\ Running /\ mainPc \in {"cleanup", "cleanup_err"}
  /\ CleanupAllDone(1)
  /\ IF mainPc = "cleanup"
     THEN mainPc' = "done" /\ UNCHANGED exitCode
     ELSE exitCode' = 1 /\ UNCHANGED mainPc
  /\ UNCHANGED <<xVars, job, execListeners, dr, batch>>

InitRecord ==
  /\ InitProcs /\ InitCleanup /\ InitX({}) /\ IdleJobs
  /\ execListeners = {} /\ dr = NoCall /\ mainPc = "m_display" /\ exitCode = -1
  /\ batch = NoBatch

NextRecord ==
  \/ MainStartDisplay
  \/ MainSetupAudio
  \/ MainStartRecording
  \/ MainLaunchBrowser
  \/ MainPlayAndWait
  \/ MainStopRecording
  \/ StopRecordingTimeout(1)
  \/ MainStopRecordingDone
  \/ MainCloseBrowser
  \/ MainStopDisplay
  \/ StopDisplayTimeout(1)
  \/ MainStopDisplayDone
  \/ MainCleanupAudio
  \/ WithCleanupFinally
  \/ WithCleanupHandlerSettles
  \/ WithCleanupDone
  \/ MainEnds
  \/ \E p \in Procs : ProcExit(p)

SpecRecord == InitRecord /\ [][NextRecord]_vars

\* ------------------------------------------------------ sequence helpers
IsPrefix(s, t) == Len(s) <= Len(t) /\ \A i \in 1..Len(s) : s[i] = t[i]
InSeq(x, s) == \E i \in 1..Len(s) : s[i] = x

\* ------------------------------------------------- claims on SpecCleanup

\* C1: however often and however overlapping cleanupAll is invoked, one
\* cleanup pass runs: at most one pass starts, no custom handler is called
\* twice, no process is signalled by two passes, and once the handler loop of
\* the pass is over every handler it iterated was called exactly once.
C1_CleanupRunsOnce ==
  /\ passes <= 1
  /\ \A h \in Handlers : handlerCalls[h] <= 1
  /\ \A p \in Procs : termPasses[p] <= 1
  /\ \A c \in Callers :
       caPc[c] \in {"await", "done"} =>
         \A h \in Handlers : h < caIdx[c] => handlerCalls[h] = 1

\* A second invocation was skipped while the first pass, having called a
\* handler and signalled a process, still awaits the terminations.
C1_Witness ==
  \E c1, c2 \in Callers :
    /\ caPc[c1] = "await" /\ caPc[c2] = "skipped"
    /\ handlerCalls[1] = 1
    /\ \E p \in Procs : termPasses[p] = 1 /\ kpState[p] = "pending"

\* C9: killProcess resolves only once the process has exited or SIGKILL was
\* issued: a process that got the graceful signal and is still alive when
\* the promise is resolved has been sent SIGKILL.
C9_KillProcessEscalates ==
  \A p \in Procs :
    (kpState[p] = "resolved" /\ "SIGTERM" \in procSigs[p]) =>
      (procState[p] = "exited" \/ "SIGKILL" \in procSigs[p])


\* C28: within the cleanup pass the custom handlers are called one after the
\* other in the order of their registration, a handler that throws not
\* stopping the later ones; the tracked processes are signalled only when
\* the handler loop is over, all of them in one turn; and the registry is
\* cleared only when every termination has resolved.
C28_PassOrder ==
  /\ \A i \in 1..Len(cleanupHandlers) : cleanupHandlers[i] = i
  /\ handlerThrew \subseteq {h \in Handlers : handlerCalls[h] = 1}
  /\ \A c \in Callers :
       /\ caPc[c] = "handler" =>
            /\ \A h \in Handlers : handlerCalls[h] = IF h <= caIdx[c] THEN 1 ELSE 0
            /\ caIdx[c] \notin handlerThrew
            /\ \A p \in Procs : kpState[p] = "none" /\ procSigs[p] = {}
       /\ caPc[c] \in {"await", "done"} =>
            /\ \A h \in Handlers : handlerCalls[h] = IF h < caIdx[c] THEN 1 ELSE 0
            /\ \A p \in Procs : termPasses[p] = IF p \in caKills[c] THEN 1 ELSE 0
            /\ \A p \in Procs : p \notin caKills[c] => kpState[p] = "none"
       /\ caPc[c] = "done" => \A p \in caKills[c] : kpState[p] = "resolved"
  /\ (\A c \in Callers : caPc[c] \in {"idle", "skipped"}) =>
       \A p \in Procs : kpState[p] = "none" /\ procSigs[p] = {}

\* The first handler threw, the second was called all the same, then both
\* tracked processes were signalled and, both terminations resolved, the
\* registry was cleared.
C28_Witness ==
  \E c \in Callers :
    /\ caPc[c] = "done" /\ handlerThrew = {1}
    /\ handlerCalls = [h \in Handlers |-> 1]
    /\ caKills[c] = {<<1, "xvfb">>, <<1, "ffmpeg">>}
    /\ \A p \in caKills[c] : "SIGTERM" \in procSigs[p]

\* C31: when the process has exited with status 1 after an uncaught
\* exception started the cleanup pass, every registered handler has been
\* called and killProcess has been called on every tracked process.
C31_FaultCleanupCompletes ==
  \A c \in Callers :
    exitCode = 1 /\ caPc[c] \in {"handler", "await", "done"} =>
      /\ \A i \in 1..Len(cleanupHandlers) : handlerCalls[cleanupHandlers[i]] = 1
      /\ \A p \in Tracked : termPasses[p] >= 1

\* C34: when a cleanup pass clears the registry, killProcess has been
\* called on every handle the registry holds, the handles tracked while
\* the pass was in progress included.
C34_ClearedAreSignalled ==
  [][\A c \in Callers :
       caPc[c] = "await" /\ caPc'[c] = "done" =>
         \A q \in Tracked : termPasses[q] >= 1]_vars

\* C35: a tracked handle stays in the registry until it is untracked or a
\* cleanup pass has called killProcess on it: tracking another handle under
\* the same name does not displace a handle no pass has signalled.
C35_TrackedAreSignalled ==
  [][\A q \in Tracked :
       processes'[Name(q)] \notin {q, NoProc} => termPasses[q] >= 1]_vars

\* C39: a cleanup pass completes: while it awaits the killProcess promises,
\* each of them is resolved or has its 5 s timer armed, whether the process
\* ignores the signal, had exited before the pass, or its kill call threw;
\* and when the pass is done the registry is empty.
C39_PassCompletes ==
  [][\A c \in Callers :
       /\ caPc'[c] = "await" =>
            \A q \in caKills'[c] : kpState'[q] = "resolved" \/ kpTimer'[q]
       /\ caPc[c] = "await" /\ caPc'[c] = "done" =>
            /\ \A q \in caKills[c] : kpState[q] = "resolved"
            /\ \A n \in Kinds : processes'[n] = NoProc]_vars

\* A pass is done although one of its processes ignores the signal and is
\* still running and the kill call of the other threw.
C39_Witness ==
  \E c \in Callers :
    /\ caPc[c] = "done" /\ Cardinality(caKills[c]) = 2
    /\ \E q \in caKills[c] : procState[q] = "running" /\ procBehav[q] = "ignores"
    /\ \E q \in caKills[c] : procState[q] = "running" /\ procBehav[q] = "throws"
    /\ \A n \in Kinds : processes[n] = NoProc

\* A pass is done that called killProcess on a handle whose process had
\* exited before the pass: no signal was delivered to it.
C39_WitnessExited ==
  \E c \in Callers : \E q \in caKills[c] :
    caPc[c] = "done" /\ procState[q] = "exited" /\ procSigs[q] = {} /\ ~procKilled[q]

\* C40: a cleanup pass that has completed does not disable later cleanup:
\* an invocation of cleanupAll returns without a pass only while a pass is
\* in progress or when killProcess has been called on every tracked handle.
C40_LaterCleanupRuns ==
  [][\A c \in Callers :
       caPc[c] = "idle" /\ caPc'[c] = "skipped" =>
         \/ \E d \in Callers : caPc[d] \in {"handler", "await"}
         \/ \A q \in Tracked : termPasses[q] >= 1]_vars

\* C13: the registry holds exactly the tracked processes that are alive: the
\* entry of a tracked process that exited on its own is gone.
C13_RegistryHoldsLive ==
  \A n \in Kinds : processes[n] # NoProc => procState[processes[n]] = "running"

\* ------------------------------------------------- claims on SpecSingle

\* C11: once the cleanup pass that a signal started is over, the recorder
\* process has ended with a non-zero status.
C11_InterruptEndsRun ==
  \A c \in Callers : caPc[c] = "done" => exitCode > 0

\* C12: every child process of a job that is alive is registered with the
\* cleanup manager, so that a cleanup pass signals it.
C12_SpawnedAreTracked ==
  \A p \in Procs : procState[p] = "running" => processes[Name(p)] = p

\* -------------------------------------------------- claims on SpecAlloc
\* The numbers probed so far, in the order of the probes.
Probed(r) == r.displayStartNumber..(r.displayStartNumber + r.sdProbes - 1)

\* C22: the allocation probes the numbers from the preferred one upwards; the
\* server is started on the first number that probes as free, the smallest
\* free number from the preferred one on; it fails when every number of the
\* budget (the preferred one and the 10 after it) is in use, and without
\* auto-retry as soon as the preferred number is in use.
C22_FirstFreeDisplay ==
  LET r == job[1] x == <<1, "xvfb">> IN
  /\ r.sdProbes <= 11
  /\ ~r.autoRetry => r.sdProbes <= 1
  /\ procState[x] # "none" =>
       /\ r.sdNum = r.displayStartNumber + r.sdProbes - 1
       /\ xLock[r.sdNum] = x
       /\ \A m \in Probed(r) : m # r.sdNum => xLock[m] = ExtProc
       /\ ~r.autoRetry => r.sdNum = r.displayStartNumber
  /\ r.displayInfo # 0 => r.displayInfo = r.sdNum /\ procState[x] # "none"
  /\ r.error = "display" /\ r.sdProbes > 0 =>
       /\ procState[x] = "none"
       /\ \A m \in Probed(r) : xLock[m] = ExtProc
       /\ r.sdProbes = IF r.autoRetry THEN 11 ELSE 1

\* Numbers 100 and 101 are held by other servers: the allocation that
\* prefers 100 resolved with 102 after three probes.
C22_Witness ==
  /\ job[1].displayStartNumber = DisplayStart + 1 /\ job[1].sdProbes = 3
  /\ job[1].displayInfo = DisplayStart + 3 /\ job[1].pc = "audio"

\* ------------------------------------------------- claims on SpecRecord
\* C30: when the recorder of src/record.js has exited with status 1 after a
\* failed step, the cleanup pass of withCleanup has run: the registered audio
\* handler was called and no child process is alive without killProcess
\* having been called on it.
C30_CleanupBeforeExit ==
  exitCode = 1 =>
    /\ Len(cleanupHandlers) >= 1 => handlerCalls[1] = 1
    /\ \A p \in Procs : procState[p] = "running" => termPasses[p] >= 1

\* C38: the removal of the audio sink is invoked at most once in a run: the
\* cleanup handler registered for it does not repeat the call the main
\* program made itself on its success path.
C38_TeardownOnce ==
  Len(SelectSeq(job[1].tdLog, LAMBDA s : s = "audio")) + handlerCalls[1] <= 1

\* ----------------------------------------------- claims on SpecDuration
FinitePositive(d) == d[1] = "number" /\ d[2] > 0

\* C19: with auto-detect on and a finite positive detected duration the
\* result is its ceiling, whatever the manual value; otherwise the manual
\* duration when one is given; otherwise the resolution fails.
C19_DurationPolicy ==
  dr.state \in {"returned", "failed"} =>
    IF dr.autoDetect /\ FinitePositive(dr.detected)
    THEN /\ dr.state = "returned"
         /\ 10 * dr.result >= dr.detected[2]
         /\ 10 * (dr.result - 1) < dr.detected[2]
    ELSE IF dr.manual # 0
    THEN dr.state = "returned" /\ dr.result = dr.manual
    ELSE dr.state = "failed"

\* 1.4 s detected with a manual duration of 1 s resolves to 2 s.
C19_Witness ==
  /\ dr.state = "returned" /\ dr.autoDetect
  /\ dr.detected = <<"number", 14>> /\ dr.manual = 1 /\ dr.result = 2

\* -------------------------------------------------- claims on SpecBatch
SeqTo(n) == [i \in 1..n |-> i]

C18_SequentialOrder ==
  batch.k <= 1 =>
    /\ Cardinality(batch.inFlight) <= 1
    /\ batch.started = SeqTo(Len(batch.started))
    /\ batch.finished = SeqTo(Len(batch.finished))
    /\ Len(batch.started) <= Len(batch.finished) + 1
    /\ \A i \in 2..batch.n : InSeq(i, batch.started) => batch.results[i - 1] # "none"

C18_Witness ==
  /\ batch.k = 1 /\ batch.n = 3
  /\ batch.finished = <<1, 2>> /\ batch.inFlight = {3}

\* ------------------------------------------------ claims on SpecProgram
AnyFailed ==
  \/ job[1].result = "failed"
  \/ \E i \in 1..batch.n : batch.results[i] = "failed"

TeardownOrder == <<"capture", "browser", "display", "audio">>
\* A resource is acquired when its stage has succeeded.
Acquired(r, step) == InSeq(step, r.stages)
\* The stages that have succeeded when the code is at pc.
StagesBefore(pc) ==
  CASE pc \in {"start", "sd_check", "sd_first", "sd_find", "sd_wait", "sd_hung"} -> 0
    [] pc = "audio" -> 1
    [] pc = "browser" -> 2
    [] pc \in {"page", "navigate"} -> 3
    [] pc \in {"fullscreen", "findVideo"} -> 4
    [] pc = "clicks" -> 5
    [] pc \in {"rec_check", "rec_wait"} -> 6
    [] pc \in {"settle", "play"} -> 7
    [] pc \in {"route", "wait"} -> 8
    [] OTHER -> 9
InTry(r) == r.tdMode = "none" /\ r.pc \notin {"idle", "returned"}

FailedStage(e) ==
  CASE e = "display" -> 0
    [] e = "audio" -> 1
    [] e = "browser" -> 2
    [] e \in {"page", "navigate"} -> 3
    [] e = "video" -> 4
    [] e \in {"metadata", "duration"} -> 5
    [] e = "capture" -> 6
    [] e = "play" -> 7
    [] e = "route" -> 8
    [] OTHER -> 99
C6_OriginalErrorKept ==
  \A j \in Jobs : LET r == job[j] IN
    /\ r.result = "failed" /\ r.resultError # "arguments" =>
         /\ r.tdMode = "emergency"
         /\ r.resultError = r.error
         /\ FailedStage(r.resultError) = Len(r.stages)
    /\ r.tdMode = "emergency" => FailedStage(r.error) = Len(r.stages)
    /\ r.tdMode = "emergency" /\ r.pc = "returned" => r.result = "failed"

\* A job failed at playback and two of its emergency teardown steps ran
\* into errors of their own.
C6_Witness ==
  \E j \in Jobs : LET r == job[j] IN
    /\ r.result = "failed" /\ r.resultError = "play"
    /\ {"capture", "browser"} \subseteq r.tdErrors

\* C7: on the success path the teardown steps are called in the order
\* capture stop, browser close, display stop, sink release, each after the
\* step before it has returned.
C7_GracefulOrder ==
  \A j \in Jobs : LET r == job[j] IN
    r.tdMode = "graceful" =>
      /\ IsPrefix(r.tdLog, TeardownOrder)
      /\ Len(r.tdLog) >= 2 => r.srState = "resolved" /\ ~r.ffmpegProcess
      /\ Len(r.tdLog) >= 3 => ~r.browser
      /\ Len(r.tdLog) >= 4 => r.xdState = "resolved" /\ r.displayInfo = 0
      /\ r.result = "success" => r.tdLog = TeardownOrder /\ ~r.audioInfo

C7_Witness ==
  \E j \in Jobs : job[j].result = "success" /\ job[j].tdLog = TeardownOrder

UsesDisplay(j) == job[j].tdMode = "none" /\ job[j].displayInfo # 0

\* C2: no two jobs that are active at the same time use the same display
\* number: startDisplay never resolves with a number that another active job
\* was given.
C2_DisplaysExclusive ==
  \A j1, j2 \in Jobs :
    j1 # j2 /\ UsesDisplay(j1) /\ UsesDisplay(j2) =>
      job[j1].displayInfo # job[j2].displayInfo

\* C14: every recordUrl call that ends returns a result value, with the error
\* description when it failed; recordUrl never ends the recorder process; and
\* the emergency cleanup of a job that failed never stops the display server
\* that a sibling job in the body of recordUrl records from.
C14_FailureIsIsolated ==
  /\ exitCode = -1
  /\ \A j \in Jobs : LET r == job[j] IN
       r.pc = "returned" =>
         /\ r.result \in {"success", "failed"}
         /\ r.result = "failed" => r.resultError # "none"
  /\ \A j, k \in Jobs :
       j # k /\ job[j].tdMode = "emergency" /\ UsesDisplay(k) =>
         ~(/\ InSeq("display", job[j].tdLog)
           /\ xLock[job[k].displayInfo] = <<j, "xvfb">>)

\* C20: playVideo makes at most 3 attempts and returns at the first one that
\* is verified as playing, after 1, 2 or 3 attempts; it fails only after
\* exactly 3 failed attempts.
C20_PlaybackRetry ==
  \A j \in Jobs : LET r == job[j] IN
    /\ r.attempt <= 3
    /\ r.pc = "play" => r.attempt < 3 /\ ~Acquired(r, "play")
    /\ Acquired(r, "play") => r.attempt \in 1..3 /\ r.error # "play"
    /\ r.error = "play" => r.attempt = 3 /\ ~Acquired(r, "play")
    /\ r.attempt > 0 /\ r.pc # "play" => Acquired(r, "play") \/ r.error = "play"

\* Two attempts failed and the third was verified as playing.
C20_Witness ==
  \E j \in Jobs : LET r == job[j] IN
    Acquired(r, "play") /\ r.attempt = 3 /\ r.error = "none"

\* C21: after playback started the job sleeps one second exactly totalTime =
\* resolved duration + buffer times before it begins to stop the capture:
\* never fewer, never more.
C21_WaitsTotalTime ==
  \A j \in Jobs : LET r == job[j] IN
    /\ r.waited <= r.totalTime
    /\ r.waited > 0 => Acquired(r, "play")
    /\ Acquired(r, "duration") /\ InTry(r) =>
         r.actualDuration > 0 /\ r.totalTime = r.actualDuration + r.bufferTime
    /\ r.pc = "wait" => r.srState = "none" /\ r.tdLog = <<>>
    /\ Acquired(r, "wait") => r.waited = r.totalTime
    /\ r.tdMode = "graceful" => r.waited = r.totalTime /\ Acquired(r, "wait")
    /\ r.srState # "none" /\ r.tdMode = "graceful" => r.waited = r.totalTime

\* A detected duration of 1.4 s and a buffer of 1 s: the third sleep is over
\* and the capture is about to be stopped.
C21_Witness ==
  \E j \in Jobs : LET r == job[j] IN
    /\ r.pc = "wait" /\ r.actualDuration = 2 /\ r.bufferTime = 1 /\ r.waited = 3
    /\ ENABLED WaitDone(j)

\* C23: startDisplay settles: it is pending only while the display server is
\* alive (its exit before readiness, with any code or by a signal, rejects
\* it), and when it has failed no later resource of the job was acquired.
C23_StartDisplaySettles ==
  \A j \in Jobs : LET r == job[j] IN
    /\ r.pc \in {"sd_wait", "sd_hung"} => procState[<<j, "xvfb">>] = "running"
    /\ r.error = "display" =>
         /\ r.stages = <<>>
         /\ ~r.audioInfo /\ ~r.browser /\ ~r.ffmpegProcess
         /\ procState[<<j, "ffmpeg">>] = "none"

\* C24: startRecording resolves only after progress output was seen, and it
\* is pending without progress only while the capture process is alive and
\* the 5 s timer is armed: an exit before progress, with any code or by a
\* signal, rejects it.
C24_StartRecordingSettles ==
  \A j \in Jobs : LET r == job[j] IN
    /\ Acquired(r, "capture") => r.recStarted
    /\ r.pc = "rec_wait" /\ ~r.recStarted =>
         r.recTimer /\ procState[<<j, "ffmpeg">>] = "running"

\* C25: a job in parallel mode creates its sink without making it the
\* default sink of the audio server; only a job outside the parallel mode
\* sets the default sink.
C25_NoDefaultSinkInParallel ==
  \A j \in Jobs : job[j].parallelMode => ~job[j].defaultSink

\* C26: the browser's audio is routed to the job's sink only in parallel
\* mode and only after playVideo has returned with the video playing, before
\* the wait for the recording duration begins.
C26_RouteAfterPlay ==
  \A j \in Jobs : LET r == job[j] IN
    /\ r.pc = "route" \/ r.routed =>
         r.parallelMode /\ Acquired(r, "play") /\ r.attempt \in 1..3
    /\ r.pc = "route" => r.waited = 0 /\ ~r.routed
    /\ r.error = "play" => ~r.routed

\* A parallel-mode job routed its browser's audio after the second playback
\* attempt succeeded, and now waits.
C26_Witness ==
  \E j \in Jobs : LET r == job[j] IN
    r.parallelMode /\ r.routed /\ r.attempt = 2 /\ r.pc = "wait"

\* C27: a failure of a best-effort step does not fail the job: after
\* setFullscreen could not enter fullscreen the job is about to look for the
\* video element, after a click selector was not found or not clickable it
\* goes on with the next selector or the metadata; no error was thrown.
C27_BestEffortNotFatal ==
  \A j \in Jobs : LET r == job[j] IN
    /\ r.error \notin {"fullscreen", "click"}
    /\ r.bestEffort \in {"fullscreen", "fullscreenFailed"} =>
         r.pc = "findVideo" /\ r.error = "none" /\ r.tdMode = "none"
    /\ r.bestEffort \in {"clicked", "clickMissed"} =>
         r.pc = "clicks" /\ r.error = "none" /\ r.tdMode = "none"
    /\ r.pc \in {"fullscreen", "findVideo"} /\ r.tdMode = "none" =>
         r.stages = <<"display", "audio", "browser", "navigate">>
    /\ r.pc = "findVideo" => r.bestEffort # "none"

\* A click selector was not found and the job goes on to read the metadata.
C27_Witness ==
  \E j \in Jobs : LET r == job[j] IN
    r.bestEffort = "clickMissed" /\ r.pc = "clicks" /\ r.clicked = 1

\* Fullscreen could not be entered and the job goes on to find the video.
C27_WitnessFullscreen ==
  \E j \in Jobs : job[j].bestEffort = "fullscreenFailed" /\ job[j].pc = "findVideo"

\* C29: the capture is started third and the browser launched fourth: when
\* the browser of a job has been launched, its ffmpeg capture was started.
C29_CaptureBeforeBrowser ==
  \A j \in Jobs : LET r == job[j] IN
    r.pc = "page" \/ Acquired(r, "browser") =>
      procState[<<j, "ffmpeg">>] # "none" /\ Acquired(r, "capture")

\* C32: the browser and the capture process of a job are bound to the
\* display number the job's own startDisplay call returned, whatever the
\* DISPLAY variable of the recorder's environment holds by then.
C32_BoundToOwnDisplay ==
  \A j \in Jobs :
    LET r == job[j] IN
    /\ r.browser => r.browserDisplay = r.displayInfo /\ r.displayInfo = r.sdNum
    /\ procState[<<j, "ffmpeg">>] # "none" /\ r.captureDisplay # 0 =>
         r.captureDisplay = r.displayInfo /\ r.displayInfo = r.sdNum
    /\ procState[<<j, "ffmpeg">>] # "none" /\ r.tdMode # "graceful" =>
         r.captureDisplay # 0

\* Another job's startDisplay wrote DISPLAY after this job's own did, and
\* this job has launched its browser and spawned its capture process since.
C32_Witness ==
  \E j \in Jobs :
    LET r == job[j] IN
    /\ r.browser /\ r.ffmpegProcess
    /\ envDisplay # 0 /\ envDisplay # r.displayInfo
    /\ r.browserDisplay = r.displayInfo /\ r.captureDisplay = r.displayInfo

\* C33: the click selectors are tried before the job looks for the video
\* element: a job that has tried a click selector has not completed, nor
\* begun, the lookup of the element.
C33_ClicksBeforeLookup ==
  \A j \in Jobs :
    job[j].clicked > 0 => ~InSeq("video", job[j].stages)

\* C36: when a job has returned, the removal of the audio sink it created
\* has been attempted, also when the sink was created and setting the
\* default sink failed.
C36_SinkRemoved ==
  \A j \in Jobs : job[j].pc = "returned" => ~job[j].sinkCreated

\* C37: startDisplay resolves with a display number only when the server
\* the call spawned is running, holds the number and serves it.
C37_ResolvesOnOwnServer ==
  [][\A j \in Jobs :
       job[j].pc = "sd_wait" /\ job'[j].displayInfo # 0 =>
         /\ procState[<<j, "xvfb">>] = "running"
         /\ xLock[job'[j].displayInfo] = <<j, "xvfb">>
         /\ xServing[job'[j].displayInfo]]_vars

\* A recordUrl call awaits the exit of a child process that can exit.
AwaitsExit(j) ==
  LET r == job[j] IN
  \/ r.pc \in {"sd_wait", "td_display_w"} /\ CanExit(<<j, "xvfb">>)
  \/ r.pc \in {"rec_wait", "td_capture_w"} /\ CanExit(<<j, "ffmpeg">>)

\* C16: a recordUrl call that has not returned is never stuck: a turn of its
\* code, one of its timers, or the exit of the process it waits for can
\* still happen.
C16_JobNeverStuck ==
  \A j \in Jobs :
    job[j].pc \notin {"idle", "returned"} => ENABLED JobNext(j) \/ AwaitsExit(j)

\* C10: stopRecording sends SIGKILL to a capture process that has not
\* exited when the grace period ends, and its promise never stays pending:
\* while it is pending, the force timer is armed or the process can exit.
C10_StopRecordingSettles ==
  \A j \in Jobs : LET r == job[j] p == <<j, "ffmpeg">> IN
    r.srState = "pending" =>
      /\ r.srTimer \/ CanExit(p)
      /\ ~r.srTimer /\ procState[p] = "running" => "SIGKILL" \in procSigs[p]

=============================================================================
